---- MODULE Spec2Model ----
(***************************************************************************)
(* Model of sqlite_storage::db_connection::DbConnection: one handle type   *)
(* that is either the root connection or a savepoint borrowed from its     *)
(* parent handle.  The backend (one SQLite connection) is modelled as a    *)
(* database value `db`, the connection's last-insert rowid, and the stack  *)
(* of open savepoints `saves` (each entry is the database contents at the  *)
(* moment the savepoint was opened).                                       *)
(*                                                                         *)
(* Backend behaviour relied on (rusqlite, called from db_connection.rs):   *)
(*   - Savepoint::commit runs RELEASE and marks the savepoint committed;   *)
(*   - dropping a Savepoint that is not committed runs ROLLBACK TO and     *)
(*     RELEASE (DropBehavior::Rollback, the default), errors ignored;      *)
(*   - Connection::query_row maps the first row of the result and ignores  *)
(*     the others, and fails with QueryReturnedNoRows on an empty result;  *)
(*   - a statement that fails changes nothing.                             *)
(***************************************************************************)
EXTENDS Integers, Sequences, FiniteSets, TLC

\* ------------------------------------------------------------------ bounds
\* scoped handles ever created in one behaviour
MaxHandles == 2
\* largest rowid the table may hold
MaxId == 2
\* text values an INSERT may carry
Vals == {"a"}

\* ------------------------------------------------------------ error values
\* Error::DatabaseError(msg): the single error kind; an error is its message.
MsgRootCommit == "Transaction has not been started. Cannot commit unstarted transaction."
MsgCommit == "Error committing transaction."
MsgBegin == "Error starting transaction."
MsgPrepare == "Error preparing db connection."
MsgMutInTx == "Cannot get mutable connection reference while in a transaction"
\* rusqlite errors, stringified by e.to_string()
MsgNoRows == "Query returned no rows"
MsgNoTable == "no such table: t"
MsgTableExists == "table t already exists"
MsgSyntax == "near \"BAD\": syntax error"
MsgMapper == "Invalid column type"

\* A result: Ok(value) or Err(DatabaseError(msg)).  A value is a record
\* [n, v] (a count, a rowid, or a row (id, v)); unit is [n |-> 0, v |-> ""].
Ok(n, v) == [ok |-> TRUE, n |-> n, v |-> v, msg |-> ""]
Err(m) == [ok |-> FALSE, n |-> 0, v |-> "", msg |-> m]

\* ----------------------------------------------------------------- handles
\* Handle 0 is the root (UnderlyingDbConnection::Connection); handles
\* 1..MaxHandles are scoped (UnderlyingDbConnection::Savepoint).
Root == 0
Handles == Root..MaxHandles
Variant(h) == IF h = Root THEN "Connection" ELSE "Savepoint"

\* -------------------------------------------------------------- statements
\* Table t(id INTEGER PRIMARY KEY, v TEXT): a database is whether t exists
\* and its set of rows [id, v].
EmptyDb == [exists |-> FALSE, rows |-> {}]
Stmt(k, v, id) == [k |-> k, v |-> v, id |-> id]
ExecStmts == {Stmt("create", "", 0), Stmt("delete", "", 0), Stmt("bad", "", 0)}
             \cup {Stmt("insert", x, 0) : x \in Vals}
Queries == {Stmt("count", "", 0), Stmt("all", "", 0), Stmt("bad", "", 0)}
           \cup {Stmt("byid", "", i) : i \in 1..MaxId}
Batches == {<<>>} \cup {<<s>> : s \in ExecStmts} \cup {<<s, t>> : s, t \in ExecStmts}
Mappers == {"get", "fail"}

MaxOf(S) == IF S = {} THEN 0 ELSE CHOOSE x \in S : \A y \in S : y <= x
Ids(d) == {r.id : r \in d.rows}
\* rowid chosen for INTEGER PRIMARY KEY: one more than the largest present
NextRowid(d) == MaxOf(Ids(d)) + 1

\* (mutant) an INSERT leaves the connection's last insert rowid as it was
RunStmtKeepsRowid(d, rid, s) ==
  CASE s.k = "create" ->
         IF d.exists THEN [db |-> d, rowid |-> rid, res |-> Err(MsgTableExists)]
         ELSE [db |-> [exists |-> TRUE, rows |-> {}], rowid |-> rid, res |-> Ok(0, "")]
    [] s.k = "insert" ->
         IF ~d.exists THEN [db |-> d, rowid |-> rid, res |-> Err(MsgNoTable)]
         ELSE [db |-> [d EXCEPT !.rows = @ \cup {[id |-> NextRowid(d), v |-> s.v]}],
               rowid |-> rid, res |-> Ok(1, "")]
    [] s.k = "delete" ->
         IF ~d.exists THEN [db |-> d, rowid |-> rid, res |-> Err(MsgNoTable)]
         ELSE [db |-> [d EXCEPT !.rows = {}], rowid |-> rid,
               res |-> Ok(Cardinality(d.rows), "")]
    [] OTHER -> [db |-> d, rowid |-> rid, res |-> Err(MsgSyntax)]

\* One statement run on the connection: [db, rowid, res].
RunStmt(d, rid, s) ==
  CASE s.k = "create" ->
         IF d.exists THEN [db |-> d, rowid |-> rid, res |-> Err(MsgTableExists)]
         ELSE [db |-> [exists |-> TRUE, rows |-> {}], rowid |-> rid, res |-> Ok(0, "")]
    [] s.k = "insert" ->
         IF ~d.exists THEN [db |-> d, rowid |-> rid, res |-> Err(MsgNoTable)]
         ELSE [db |-> [d EXCEPT !.rows = @ \cup {[id |-> NextRowid(d), v |-> s.v]}],
               rowid |-> NextRowid(d), res |-> Ok(1, "")]
    [] s.k = "delete" ->
         IF ~d.exists THEN [db |-> d, rowid |-> rid, res |-> Err(MsgNoTable)]
         ELSE [db |-> [d EXCEPT !.rows = {}], rowid |-> rid,
               res |-> Ok(Cardinality(d.rows), "")]
    [] OTHER -> [db |-> d, rowid |-> rid, res |-> Err(MsgSyntax)]

\* A script run statement by statement; it stops at the first failure and
\* keeps what the earlier statements did.
RECURSIVE RunBatch(_, _, _)
RunBatch(d, rid, b) ==
  IF b = <<>> THEN [db |-> d, rowid |-> rid, res |-> Ok(0, "")]
  ELSE LET r == RunStmt(d, rid, Head(b))
       IN IF r.res.ok THEN RunBatch(r.db, r.rowid, Tail(b))
          ELSE r

\* the statement stays inside the modelled rowid range
InRange(d, s) == (s.k = "insert" /\ d.exists) => NextRowid(d) <= MaxId
RECURSIVE BatchInRange(_, _)
BatchInRange(d, b) ==
  IF b = <<>> THEN TRUE
  ELSE InRange(d, Head(b)) /\ BatchInRange(RunStmt(d, 0, Head(b)).db, Tail(b))

\* Compiling a statement: the backend's error, or "" when it compiles.
CompileErr(d, s) ==
  IF s.k = "bad" THEN MsgSyntax
  ELSE IF s.k = "create" THEN (IF d.exists THEN MsgTableExists ELSE "")
  ELSE IF ~d.exists THEN MsgNoTable ELSE ""

\* The rows a query yields, in rowid order, each as a value [n, v].
RECURSIVE RowsFrom(_, _)
RowsFrom(d, i) ==
  IF i > MaxOf(Ids(d)) THEN <<>>
  ELSE (IF i \in Ids(d)
        THEN <<[n |-> i, v |-> (CHOOSE r \in d.rows : r.id = i).v]>>
        ELSE <<>>) \o RowsFrom(d, i + 1)
ResultRows(d, q) ==
  CASE q.k = "count" -> <<[n |-> Cardinality(d.rows), v |-> ""]>>
    [] q.k = "byid" -> SelectSeq(RowsFrom(d, 1), LAMBDA r : r.n = q.id)
    [] q.k = "all" -> RowsFrom(d, 1)
    [] OTHER -> <<>>

\* ------------------------------------------------------------------- state
VARIABLES
  db,      \* contents seen through the connection
  rowid,   \* the connection's last insert rowid (0 before any insert)
  saves,   \* backend stack of open savepoints: contents at their opening
  chain,   \* live handles, root first; only the last one is not borrowed
  nextId,  \* next fresh scoped handle
  openDb,  \* history, per live scoped handle: contents when it was opened
  folded,  \* history: live handles into which a child with writes committed
  last,    \* the last call: operation, handle, statement, mapper, result,
           \* and (history) the contents when the handle was opened, whether
           \* a child was folded in, whether the handle had changed anything,
           \* whether a drop came right after a failed call on the handle
  ref      \* a second store used through its root handle only: [db, rowid, res]

vars == <<db, rowid, saves, chain, nextId, openDb, folded, last, ref>>

NoStmt == Stmt("none", "", 0)

Call(op, h, arg, m, res) ==
  [op |-> op, h |-> h, arg |-> arg, m |-> m, res |-> res,
   opened |-> openDb[h], folded |-> h \in folded, dirty |-> FALSE,
   afterErr |-> FALSE]

Init ==
  /\ db = EmptyDb
  /\ rowid = 0
  /\ saves = <<>>
  /\ chain = <<Root>>
  /\ nextId = 1
  /\ openDb = [h \in Handles |-> EmptyDb]
  /\ folded = {}
  /\ last = [op |-> "new", h |-> Root, arg |-> NoStmt, m |-> "", res |-> Ok(0, ""),
             opened |-> EmptyDb, folded |-> FALSE, dirty |-> FALSE,
             afterErr |-> FALSE]
  /\ ref = [db |-> EmptyDb, rowid |-> 0, res |-> Ok(0, "")]

Front(q) == SubSeq(q, 1, Len(q) - 1)
Top(q) == q[Len(q)]
Live == {chain[i] : i \in 1..Len(chain)}

\* (mutant) a handle stays callable while a child borrows it
UsableWhileBorrowed(h) == h \in Live

\* A handle can be called when it is live and no child borrows it:
\* new_transaction(&mut self) -> DbConnection<'_> keeps self mutably
\* borrowed for as long as the returned handle lives.
Usable(h) == chain # <<>> /\ h = Top(chain)

\* (mutant) the scoped arm runs against the contents at its savepoint's opening
TargetAtOpening(h, st, d) ==
  CASE Variant(h) = "Connection" -> d
    [] Variant(h) = "Savepoint" -> Top(st)

\* The contents a statement issued through h runs against: the root arm uses
\* the connection, the scoped arm its savepoint, which derefs to the same
\* connection (st is the backend's savepoint stack, d the connection's
\* current contents).
Target(h, st, d) ==
  CASE Variant(h) = "Connection" -> d
    [] Variant(h) = "Savepoint" -> d

\* (mutant) a failing statement takes the open savepoint's writes with it
ExecuteResAbortsSavepoint(h, st, d, rid, s) ==
  LET r == RunStmt(Target(h, st, d), rid, s)
  IN IF r.res.ok \/ st = <<>> THEN r ELSE [r EXCEPT !.db = Top(st)]

\* ----------------------------------------------------------- data operations
ExecuteRes(h, st, d, rid, s) == RunStmt(Target(h, st, d), rid, s)

Execute(h, s) ==
  /\ Usable(h)
  /\ InRange(db, s)
  /\ LET r == ExecuteRes(h, saves, db, rowid, s)
     IN /\ db' = r.db
        /\ rowid' = r.rowid
        /\ last' = Call("execute", h, s, "", r.res)
  /\ UNCHANGED <<saves, chain, nextId, openDb, folded>>

ExecuteBatchRes(h, st, d, rid, b) == RunBatch(Target(h, st, d), rid, b)

ExecuteBatch(h, b) ==
  /\ Usable(h)
  /\ BatchInRange(db, b)
  /\ LET r == ExecuteBatchRes(h, saves, db, rowid, b)
     IN /\ db' = r.db
        /\ rowid' = r.rowid
        /\ last' = Call("execute_batch", h, NoStmt, "", r.res)
  /\ UNCHANGED <<saves, chain, nextId, openDb, folded>>

\* (mutant) a result of more than one row is refused
QueryRowExactlyOne(d, q, m) ==
  IF CompileErr(d, q) # "" THEN Err(CompileErr(d, q))
  ELSE IF ResultRows(d, q) = <<>> THEN Err(MsgNoRows)
  ELSE IF Len(ResultRows(d, q)) > 1 THEN Err("Query returned more than one row")
  ELSE IF m = "fail" THEN Err(MsgMapper)
  ELSE Ok(ResultRows(d, q)[1].n, ResultRows(d, q)[1].v)

\* query_row: Connection::query_row maps the first row, then
\* map_err(e.to_string()).
QueryRowRes(d, q, m) ==
  IF CompileErr(d, q) # "" THEN Err(CompileErr(d, q))
  ELSE IF ResultRows(d, q) = <<>> THEN Err(MsgNoRows)
  ELSE IF m = "fail" THEN Err(MsgMapper)
  ELSE Ok(ResultRows(d, q)[1].n, ResultRows(d, q)[1].v)

\* (mutant) the query runs inside a savepoint of its own that stays open
QueryRowLeavesSavepoint(h, q, m) ==
  /\ Usable(h)
  /\ last' = Call("query_row", h, q, m, QueryRowRes(Target(h, saves, db), q, m))
  /\ saves' = Append(saves, db)
  /\ UNCHANGED <<db, rowid, chain, nextId, openDb, folded>>

QueryRow(h, q, m) ==
  /\ Usable(h)
  /\ last' = Call("query_row", h, q, m, QueryRowRes(Target(h, saves, db), q, m))
  /\ UNCHANGED <<db, rowid, saves, chain, nextId, openDb, folded>>

\* prepare: every backend error becomes the one fixed message.
PrepareRes(d, s) == IF CompileErr(d, s) # "" THEN Err(MsgPrepare) ELSE Ok(0, "")

Prepare(h, s) ==
  /\ Usable(h)
  /\ last' = Call("prepare", h, s, "", PrepareRes(Target(h, saves, db), s))
  /\ UNCHANGED <<db, rowid, saves, chain, nextId, openDb, folded>>

LastInsertRowid(h) ==
  /\ Usable(h)
  /\ last' = Call("last_insert_rowid", h, NoStmt, "", Ok(rowid, ""))
  /\ UNCHANGED <<db, rowid, saves, chain, nextId, openDb, folded>>

\* (mutant) the connection is handed out whatever the variant
AsConnectionMutAlways(h) == Ok(0, "")

AsConnectionMutRes(h) ==
  IF Variant(h) = "Connection" THEN Ok(0, "") ELSE Err(MsgMutInTx)

AsConnectionMut(h) ==
  /\ Usable(h)
  /\ last' = Call("as_connection_mut", h, NoStmt, "", AsConnectionMutRes(h))
  /\ UNCHANGED <<db, rowid, saves, chain, nextId, openDb, folded>>

\* ------------------------------------------------------ savepoints (backend)
\* (mutant) RELEASE also moves the enclosing savepoint up to the contents
ReleaseSavesRebase(st, d) ==
  IF Len(st) >= 2 THEN Append(Front(Front(st)), d) ELSE Front(st)
\* (mutant) RELEASE discards what was written since the savepoint
ReleaseDbUndoes(st, d) == Top(st)
\* (mutant) a savepoint dropped uncommitted keeps what was written
RollbackDbKeeps(st, d) == d

\* (mutant) RELEASE releases every open savepoint, not the innermost alone
ReleaseSavesAll(st, d) == <<>>
\* (mutant) the rollback goes back to the outermost savepoint
RollbackDbToOutermost(st, d) == st[1]

\* (mutant) two savepoints are opened for one handle
SavepointOpenTwice(st, d) == Append(Append(st, d), d)

\* SAVEPOINT: remember the contents.
SavepointOpen(st, d) == Append(st, d)
\* RELEASE: the innermost savepoint is forgotten, the outer ones stay as
\* they are, and the contents are kept.
ReleaseSaves(st, d) == Front(st)
ReleaseDb(st, d) == d
\* ROLLBACK TO, then RELEASE: back to the contents at the opening.
RollbackDb(st, d) == Top(st)

\* (mutant) a refused new_transaction leaves a savepoint open behind it
NewTransactionLeaksSavepoint(h, accept) ==
  /\ Usable(h)
  /\ nextId <= MaxHandles
  /\ IF accept
     THEN /\ saves' = Append(saves, db)
          /\ chain' = Append(chain, nextId)
          /\ openDb' = [openDb EXCEPT ![nextId] = db]
          /\ last' = Call("new_transaction", h, NoStmt, "", Ok(nextId, ""))
          /\ nextId' = nextId + 1
     ELSE /\ last' = Call("new_transaction", h, NoStmt, "", Err(MsgBegin))
          /\ saves' = Append(saves, db)
          /\ UNCHANGED <<chain, nextId, openDb>>
  /\ UNCHANGED <<db, rowid, folded>>

\* ------------------------------------------------------- transaction scope
\* new_transaction: `accept` is whether the backend takes the SAVEPOINT.
NewTransaction(h, accept) ==
  /\ Usable(h)
  /\ nextId <= MaxHandles
  /\ IF accept
     THEN /\ saves' = SavepointOpen(saves, db)
          /\ chain' = Append(chain, nextId)
          /\ openDb' = [openDb EXCEPT ![nextId] = db]
          /\ last' = Call("new_transaction", h, NoStmt, "", Ok(nextId, ""))
          /\ nextId' = nextId + 1
     ELSE /\ last' = Call("new_transaction", h, NoStmt, "", Err(MsgBegin))
          /\ UNCHANGED <<saves, chain, nextId, openDb>>
  /\ UNCHANGED <<db, rowid, folded>>

\* (mutant) commit does not look at the variant: the root commits fine
CommitResRootOk(h, released) == IF released THEN Ok(0, "") ELSE Err(MsgCommit)
\* (mutant) both failures carry the same message
CommitResOneMessage(h, released) ==
  IF Variant(h) = "Connection"
  THEN Err(MsgCommit)
  ELSE IF released THEN Ok(0, "") ELSE Err(MsgCommit)

\* The result of commit, by variant; `released` is whether the backend
\* accepts the RELEASE.
CommitRes(h, released) ==
  IF Variant(h) = "Connection"
  THEN Err(MsgRootCommit)
  ELSE IF released THEN Ok(0, "") ELSE Err(MsgCommit)

\* (mutant) commit borrows the handle instead of taking it
ConsumeNothing(ch, h) == ch

\* The live handles once h has been moved into commit or has gone out of scope.
Consume(ch, h) == SelectSeq(ch, LAMBDA x : x # h)

\* commit(self): the handle is moved into the call and gone when it returns.
\* On the root the connection goes with it.  On a scoped handle whose
\* RELEASE is refused, the savepoint is dropped uncommitted: rolled back.
Commit(h, released) ==
  /\ Usable(h)
  /\ last' = [Call("commit", h, NoStmt, "", CommitRes(h, released))
                EXCEPT !.dirty = (db # openDb[h])]
  /\ chain' = Consume(chain, h)
  /\ openDb' = [openDb EXCEPT ![h] = EmptyDb]
  /\ IF Variant(h) = "Connection"
     THEN UNCHANGED <<db, saves, folded>>
     ELSE IF released
          THEN /\ db' = ReleaseDb(saves, db)
               /\ saves' = ReleaseSaves(saves, db)
               /\ folded' = IF db # openDb[h] \/ h \in folded
                            THEN (folded \ {h}) \cup {chain[Len(chain) - 1]}
                            ELSE folded
          ELSE /\ db' = RollbackDb(saves, db)
               /\ saves' = Front(saves)
               /\ folded' = folded \ {h}
  /\ UNCHANGED <<rowid, nextId>>

\* (mutant) a handle going out of scope leaves its savepoint as it is
DropLeavesSavepoint(h) ==
  /\ Usable(h)
  /\ last' = [Call("drop", h, NoStmt, "", Ok(0, ""))
                EXCEPT !.dirty = (db # openDb[h]),
                       !.afterErr = (last.h = h /\ ~last.res.ok)]
  /\ chain' = Consume(chain, h)
  /\ openDb' = [openDb EXCEPT ![h] = EmptyDb]
  /\ folded' = folded \ {h}
  /\ UNCHANGED <<db, saves, rowid, nextId>>

\* A handle going out of scope without commit.  A scoped handle's savepoint
\* is rolled back; the root's connection is closed.
Drop(h) ==
  /\ Usable(h)
  /\ last' = [Call("drop", h, NoStmt, "", Ok(0, ""))
                EXCEPT !.dirty = (db # openDb[h]),
                       !.afterErr = (last.h = h /\ ~last.res.ok)]
  /\ chain' = Consume(chain, h)
  /\ openDb' = [openDb EXCEPT ![h] = EmptyDb]
  /\ folded' = folded \ {h}
  /\ IF Variant(h) = "Connection"
     THEN UNCHANGED <<db, saves>>
     ELSE /\ db' = RollbackDb(saves, db)
          /\ saves' = Front(saves)
  /\ UNCHANGED <<rowid, nextId>>

Next ==
  \E h \in Handles :
    \/ \E s \in ExecStmts : Execute(h, s) /\ UNCHANGED ref
    \/ \E b \in Batches : ExecuteBatch(h, b) /\ UNCHANGED ref
    \/ \E q \in Queries, m \in Mappers : QueryRow(h, q, m) /\ UNCHANGED ref
    \/ \E s \in Queries \cup ExecStmts : Prepare(h, s) /\ UNCHANGED ref
    \/ LastInsertRowid(h) /\ UNCHANGED ref
    \/ AsConnectionMut(h) /\ UNCHANGED ref
    \/ \E accept \in BOOLEAN : NewTransaction(h, accept) /\ UNCHANGED ref
    \/ \E released \in BOOLEAN : Commit(h, released) /\ UNCHANGED ref
    \/ Drop(h) /\ UNCHANGED ref

Spec == Init /\ [][Next]_vars

\* ------------------------------------------------- two stores side by side
\* The same calls issued through the innermost handle of the first store, at
\* whatever depth it is, and through the root handle of the second store.
\* Scoped handles of the first store are opened at any point and committed.
PairExecute(s) ==
  /\ \E h \in Handles : Execute(h, s)
  /\ ref' = ExecuteRes(Root, <<>>, ref.db, ref.rowid, s)

PairExecuteBatch(b) ==
  /\ \E h \in Handles : ExecuteBatch(h, b)
  /\ ref' = ExecuteBatchRes(Root, <<>>, ref.db, ref.rowid, b)

PairQueryRow(q, m) ==
  /\ \E h \in Handles : QueryRow(h, q, m)
  /\ ref' = [ref EXCEPT !.res = QueryRowRes(Target(Root, <<>>, ref.db), q, m)]

PairPrepare(s) ==
  /\ \E h \in Handles : Prepare(h, s)
  /\ ref' = [ref EXCEPT !.res = PrepareRes(Target(Root, <<>>, ref.db), s)]

PairLastInsertRowid ==
  /\ \E h \in Handles : LastInsertRowid(h)
  /\ ref' = [ref EXCEPT !.res = Ok(ref.rowid, "")]

PairBegin ==
  /\ \E h \in Handles : NewTransaction(h, TRUE)
  /\ UNCHANGED ref

PairCommit ==
  /\ \E h \in Handles \ {Root} : Commit(h, TRUE)
  /\ UNCHANGED ref

NextPair ==
  \/ \E s \in ExecStmts : PairExecute(s)
  \/ \E b \in Batches : PairExecuteBatch(b)
  \/ \E q \in Queries, m \in Mappers : PairQueryRow(q, m)
  \/ \E s \in Queries \cup ExecStmts : PairPrepare(s)
  \/ PairLastInsertRowid
  \/ PairBegin
  \/ PairCommit

PairSpec == Init /\ [][NextPair]_vars

\* ------------------------------------------------------------------ claims
Scoped(h) == Variant(h) = "Savepoint"
DataOps == {"execute", "execute_batch", "query_row", "prepare", "last_insert_rowid"}

\* C1: when a scoped handle is dropped without commit, the contents read
\* through its parent afterwards are the contents at the moment the handle
\* was opened: every write made through it is absent.
RollbackOnDrop ==
  (last.op = "drop" /\ Scoped(last.h)) => db = last.opened
\* a scoped handle that had changed the contents has just been dropped
RollbackOnDropWitness ==
  last.op = "drop" /\ Scoped(last.h) /\ last.dirty /\ db = last.opened

\* C2: a commit of a scoped handle that returns Ok leaves the contents as
\* they were seen through the handle: every write made through it is
\* visible through the parent.
CommitFoldsIntoParent ==
  [][(last'.op = "commit" /\ Scoped(last'.h) /\ last'.res.ok /\ last' # last)
       => db' = db]_vars
\* a scoped handle that had changed the contents has just committed, and the
\* parent sees contents other than those at the opening
CommitFoldsWitness ==
  /\ last.op = "commit" /\ Scoped(last.h) /\ last.res.ok
  /\ last.dirty /\ db # last.opened /\ db.rows # {}

\* C3: when a scoped handle into which a child committed its writes is
\* dropped without commit, the contents go back to those at the opening of
\* the dropped handle: the child's writes are gone with it.
CascadingRollback ==
  (last.op = "drop" /\ Scoped(last.h) /\ last.folded) => db = last.opened
\* H1 has just been dropped after H2 committed writes into it
CascadingRollbackWitness ==
  /\ last.op = "drop" /\ Scoped(last.h) /\ last.folded
  /\ chain = <<Root>> /\ db = last.opened

\* C4 (as amended): commit on a root handle never returns Ok; it returns
\* DatabaseError("Transaction has not been started. Cannot commit unstarted
\* transaction.").
RootCommitAlwaysFails ==
  (last.op = "commit" /\ Variant(last.h) = "Connection")
    => (~last.res.ok /\ last.res.msg = MsgRootCommit)
\* commit was called on the root after transactions had come and gone
RootCommitWitness ==
  /\ last.op = "commit" /\ Variant(last.h) = "Connection"
  /\ ~last.res.ok /\ nextId > 1 /\ db.exists
\* C4 as stated: the message is "no transaction in progress"
RootCommitNoTransactionInProgress ==
  (last.op = "commit" /\ Variant(last.h) = "Connection")
    => (~last.res.ok /\ last.res.msg = "no transaction in progress")

\* C5: every call is made on the innermost live handle, so none is made on
\* a handle while a child of it is alive; when a scoped handle is committed
\* or dropped its parent becomes the innermost handle again; and when it
\* went without a successful commit the parent sees the contents at its
\* opening.
ExclusiveBorrow ==
  [][last' # last =>
       /\ last'.h = Top(chain)
       /\ (last'.op \in {"commit", "drop"} /\ Scoped(last'.h))
            => (chain' # <<>> /\ Top(chain') = chain[Len(chain) - 1])
       /\ (Scoped(last'.h) /\ (last'.op = "drop" \/ (last'.op = "commit" /\ ~last'.res.ok)))
            => db' = openDb[last'.h]]_vars
\* the root is written through again after a child handle has gone away
ExclusiveBorrowWitness ==
  /\ last.op = "execute" /\ last.h = Root /\ last.res.ok
  /\ nextId > 1 /\ chain = <<Root>>

\* C6: as_connection_mut returns the connection exactly when no savepoint
\* is open on the backend, and DatabaseError otherwise.
MutableRootOnlyOutsideTransaction ==
  last.op = "as_connection_mut" =>
    IF saves = <<>> THEN last.res.ok
    ELSE ~last.res.ok /\ last.res.msg = MsgMutInTx
\* the call succeeds once the nested transactions are gone
MutableRootWitness ==
  last.op = "as_connection_mut" /\ last.res.ok /\ nextId > 1 /\ db.exists

\* C7: once commit has been called on a handle, with either result, the
\* handle is no longer live; calls are made on live handles only, and a
\* handle that is gone never comes back.
CommitIsTerminal ==
  [][/\ (last'.op = "commit" /\ last' # last) => last'.h \notin
           {chain'[i] : i \in 1..Len(chain')}
     /\ last' # last => last'.h \in Live
     /\ \A h \in Handles : (h < nextId /\ h \notin Live)
           => h \notin {chain'[i] : i \in 1..Len(chain')}]_vars
\* a commit on a scoped handle has failed and the handle is gone
CommitIsTerminalWitness ==
  last.op = "commit" /\ Scoped(last.h) /\ ~last.res.ok /\ last.h \notin Live

\* C8 (as amended): query_row returns an error when the statement yields no
\* row or when the mapper fails; when the statement yields one row or more
\* and the mapper succeeds it returns Ok with the first row mapped.
QueryRowMapsFirstRow ==
  last.op = "query_row" =>
    /\ last.res.ok <=> /\ CompileErr(db, last.arg) = ""
                       /\ Len(ResultRows(db, last.arg)) >= 1
                       /\ last.m = "get"
    /\ last.res.ok => /\ last.res.n = ResultRows(db, last.arg)[1].n
                      /\ last.res.v = ResultRows(db, last.arg)[1].v
\* a statement that yields two rows has been answered with Ok
QueryRowManyRowsWitness ==
  /\ last.op = "query_row" /\ Len(ResultRows(db, last.arg)) > 1
  /\ last.res.ok /\ last.res.n = 1
\* C8 as stated: Ok only when the statement yields exactly one row
QueryRowExactlyOneRow ==
  last.op = "query_row" =>
    (last.res.ok <=> /\ CompileErr(db, last.arg) = ""
                     /\ Len(ResultRows(db, last.arg)) = 1
                     /\ last.m = "get")

\* C9: a failed commit carries the root's message exactly when it was
\* called on a root handle, and the refused-release message exactly when it
\* was called on a scoped handle; the two messages differ.
CommitErrorsDistinct ==
  (last.op = "commit" /\ ~last.res.ok) =>
    /\ (last.res.msg = MsgRootCommit) <=> (Variant(last.h) = "Connection")
    /\ (last.res.msg = MsgCommit) <=> Scoped(last.h)
\* the backend has refused the release of a scoped handle's savepoint
CommitErrorsWitness ==
  last.op = "commit" /\ Scoped(last.h) /\ ~last.res.ok /\ last.res.msg = MsgCommit

\* C10: a data call returns the same result through a handle at any depth
\* as through a root handle, and once every scoped level has been committed
\* the contents are those the root-only store holds.
HandleKindIndependence ==
  /\ last.op \in DataOps => last.res = ref.res
  /\ saves = <<>> => (db = ref.db /\ rowid = ref.rowid)
\* the last scoped level has committed its writes and the stores agree
HandleKindWitness ==
  /\ last.op = "commit" /\ last.res.ok /\ saves = <<>> /\ last.dirty
  /\ nextId > 2 /\ db.rows # {} /\ db = ref.db

\* C11: when last_insert_rowid is called right after an execute that
\* inserted a row through the same handle, it returns an id for which a
\* query_row by that id through the handle returns the row just inserted.
LastInsertRowidFindsRow ==
  [][(/\ last.op = "execute" /\ last.arg.k = "insert" /\ last.res.ok
      /\ last'.op = "last_insert_rowid" /\ last'.h = last.h)
       => /\ last'.res.ok
          /\ QueryRowRes(Target(last'.h, saves', db'),
                         Stmt("byid", "", last'.res.n), "get")
               = Ok(last'.res.n, last.arg.v)]_vars
\* the id of a second row inserted through a scoped handle has been returned
LastInsertRowidWitness ==
  /\ last.op = "last_insert_rowid" /\ Scoped(last.h) /\ last.res.n = 2
  /\ db # last.opened
  /\ QueryRowRes(db, Stmt("byid", "", last.res.n), "get").ok

\* C12: query_row changes neither the contents, the last insert rowid, the
\* open savepoints nor the live handles, and a second call with the same
\* statement and mapper on the same handle right after the first returns
\* the same result.
QueryRowIsPureRead ==
  [][last'.op = "query_row" =>
       /\ UNCHANGED <<db, rowid, saves, chain, nextId>>
       /\ (last.op = "query_row" /\ last.h = last'.h
           /\ last.arg = last'.arg /\ last.m = last'.m) => last'.res = last.res
       /\ last'.res = QueryRowRes(Target(last'.h, saves', db'), last'.arg, last'.m)]_vars
\* a row has been read through a scoped handle
QueryRowIsPureReadWitness ==
  /\ last.op = "query_row" /\ last.res.ok /\ Scoped(last.h)
  /\ last.arg.k = "byid" /\ db.rows # {}

\* C13: after any call made on the root handle (commit included), the root
\* handle is still live.
RootStaysOpen ==
  (last.h = Root /\ last.op # "drop") => Root \in Live

\* C14: a successful commit of a scoped handle releases the innermost
\* savepoint alone: the savepoints of its ancestors stay open as they were
\* and the ancestors stay live, so each of them can still roll back.
CommitReleasesOneLevel ==
  [][(last'.op = "commit" /\ Scoped(last'.h) /\ last'.res.ok /\ last' # last)
       => /\ saves' = Front(saves)
          /\ chain' = Front(chain)
          /\ \A a \in Live \ {last'.h} : openDb'[a] = openDb[a]]_vars
\* a scoped handle with writes has committed into a scoped parent that is
\* still open and can still roll them back
CommitReleasesOneLevelWitness ==
  /\ last.op = "commit" /\ Scoped(last.h) /\ last.res.ok /\ last.dirty
  /\ Len(saves) = 1 /\ Len(chain) = 2 /\ db # Top(saves)

\* C15: when a scoped handle is dropped without commit the contents go back
\* to those at its own opening, which hold whatever its parent had written
\* before; the savepoints of its ancestors stay open as they were and the
\* ancestors stay live.
RollbackOneLevel ==
  [][(last'.op = "drop" /\ Scoped(last'.h) /\ last' # last)
       => /\ db' = openDb[last'.h]
          /\ saves' = Front(saves)
          /\ chain' = Front(chain)
          /\ \A a \in Live \ {last'.h} : openDb'[a] = openDb[a]]_vars
\* a scoped handle with writes has been dropped and its scoped parent still
\* sees what it wrote itself before the child was opened
RollbackOneLevelWitness ==
  /\ last.op = "drop" /\ Scoped(last.h) /\ last.dirty
  /\ Len(saves) = 1 /\ Len(chain) = 2 /\ db # Top(saves) /\ db.rows # {}

\* C16: a scoped handle stops being live in one step only, a commit or a
\* drop of that handle, which closes its own savepoint and no other; the
\* savepoint is released (contents kept) when the commit returned Ok and
\* rolled back (contents as at the opening) otherwise, a drop right after a
\* failed call included; and a handle that is gone never comes back, so
\* neither happens a second time.
OneTerminalState ==
  [][/\ \A h \in Live \ {Root} :
          h \notin {chain'[i] : i \in 1..Len(chain')} =>
            /\ h = Top(chain)
            /\ last'.h = h /\ last'.op \in {"commit", "drop"}
            /\ saves' = Front(saves)
            /\ IF last'.op = "commit" /\ last'.res.ok
               THEN db' = db
               ELSE db' = openDb[h]
     /\ Len(saves') < Len(saves) => Top(chain) \notin {chain'[i] : i \in 1..Len(chain')}
     /\ \A h \in Handles : (h < nextId /\ h \notin Live)
           => h \notin {chain'[i] : i \in 1..Len(chain')}]_vars
\* a scoped handle with writes has been dropped right after a call on it
\* failed, and the writes are gone
OneTerminalStateWitness ==
  /\ last.op = "drop" /\ Scoped(last.h) /\ last.afterErr /\ last.dirty
  /\ db = last.opened /\ last.h \notin Live

\* C17: the live handles are the root followed by scoped handles in the
\* order they were opened, one open savepoint per live scoped handle (the
\* i-th savepoint is the one of the i-th scoped handle), and the innermost
\* handle is the only one that can be called.
LinearChain ==
  /\ chain = <<>> => saves = <<>>
  /\ chain # <<>> =>
       /\ chain[1] = Root
       /\ \A i, j \in 1..Len(chain) : i < j => chain[i] < chain[j]
       /\ Len(saves) = Len(chain) - 1
       /\ \A i \in 1..Len(saves) : openDb[chain[i + 1]] = saves[i]
       /\ \A h \in Handles : Usable(h) <=> h = Top(chain)
\* two scoped handles are live, each with writes of its own level below it
LinearChainWitness ==
  /\ Len(chain) = 3 /\ Len(saves) = 2
  /\ saves[1] # saves[2] /\ db # saves[2]

FailedBeginLeavesNothing ==
  [][(last'.op = "new_transaction" /\ ~last'.res.ok /\ last' # last)
       => /\ last'.res.msg = MsgBegin
          /\ UNCHANGED <<db, rowid, saves, chain, nextId, openDb>>
          /\ Top(chain') = last'.h]_vars
\* a scoped handle with writes has been refused a nested transaction and
\* is still the innermost handle
FailedBeginWitness ==
  /\ last.op = "new_transaction" /\ ~last.res.ok /\ Scoped(last.h)
  /\ chain # <<>> /\ Top(chain) = last.h /\ db # openDb[last.h]

====
